---- MODULE Spec2Model ----
(***************************************************************************)
(* Shared weekly grocery list: the relational store (users, couples,      *)
(* categories, grocery_lists, grocery_items), the server handlers that    *)
(* read and write it, and the week computation they share.                *)
(*                                                                         *)
(* Time is counted in milliseconds; instant 0 is a Monday 00:00:00.000    *)
(* UTC.  The server process runs in a time zone `tz` hours east of UTC    *)
(* (negative: west); Date's getDay/getDate/setDate/setHours work on the   *)
(* local wall clock, toISOString on UTC.  Daylight saving is not modelled.*)
(***************************************************************************)
EXTENDS Integers, FiniteSets, Sequences, TLC

VARIABLES
    tz,             \* process time zone, whole hours east of UTC
    now,            \* the clock: what `new Date()` returns
    users,          \* users table: set of ids
    categories,     \* categories table: set of ids
    couples,        \* couples table: set of rows
    groceryLists,   \* grocery_lists table: set of rows
    groceryItems,   \* grocery_items table: set of rows
    nextCoupleId,   \* serial of couples.id
    nextListId,     \* serial of grocery_lists.id
    nextItemId,     \* serial of grocery_items.id
    last,           \* the last completed handler call: operation, input, outcome
    calls           \* handler calls in flight (interleaved execution), or
                    \* the browser clients, each with its call in flight

store == <<users, categories, couples, groceryLists, groceryItems,
           nextCoupleId, nextListId, nextItemId>>
vars == <<tz, now, users, categories, couples, groceryLists, groceryItems,
          nextCoupleId, nextListId, nextItemId, last, calls>>

-----------------------------------------------------------------------------
(* Bounds of the model *)

(* rows the calls of one run insert, over all tables; ticks of the clock *)
MaxRows == 4
MaxTick == 1
(* last day of the instants the week computation is tried on *)
MaxDay == 7

(* SQL NULL / JS null, and a JS property that is absent (undefined) *)
NULL == 0 - 1
UNDEFINED == 0 - 2
NullText == "NULL"

MsPerHour == 60 * 60 * 1000
MsPerDay == 24 * MsPerHour

(* Time zones the server may run in: New York (-5), UTC, Paris (+1) *)
TimeZones == {0 - 5, 0, 1}

(* The instants the clock takes: Wednesday 12:00 UTC of week 0, then every  *)
(* 4 days 11 h 30 min: Sunday 23:30 of week 0, Friday 11:00 of week 1, ...  *)
ClockStart == 2 * MsPerDay + 12 * MsPerHour
ClockStep == 4 * MsPerDay + 11 * MsPerHour + 30 * 60 * 1000
ClockAt(i) == ClockStart + i * ClockStep
Clock == {ClockAt(i) : i \in 0..MaxTick}

(* Ids and values the callers supply; the largest id of each kind is never *)
(* present in its table.                                                   *)
SeedUsers == {1, 2}
SeedCategories == {1}
UserIds == SeedUsers \cup {3}
CategoryIds == SeedCategories \cup {2}
CoupleIds == 1..3
ListIds == 0..3
ItemIds == 1..3
Names == {"Milk"}
Quantities == {"", "2 lbs"}
(* week_start inputs of createGroceryList: Monday of week 0, Thursday of   *)
(* week 0, Monday of week 1, as `new Date('YYYY-MM-DD')` (UTC midnight)    *)
WeekStartInputs == {0, 3 * MsPerDay, 7 * MsPerDay}

-----------------------------------------------------------------------------
(* Date arithmetic *)

(* local wall-clock reading of instant t, in ms since local day 0 00:00 *)
LocalMs(t, z) == t + z * MsPerHour
(* the instant whose local wall-clock reading is m *)
FromLocalMs(m, z) == m - z * MsPerHour
(* local calendar day number of instant t (day 0 is a Monday) *)
LocalDate(t, z) == LocalMs(t, z) \div MsPerDay
(* Date.prototype.getDay: 0 = Sunday, 1 = Monday, ..., 6 = Saturday *)
getDay(t, z) == (LocalDate(t, z) + 1) % 7
(* time of day on the local wall clock *)
LocalTimeOfDay(t, z) == LocalMs(t, z) % MsPerDay

mondayOffset(dayOfWeek) == IF dayOfWeek = 0 THEN 0 - 6 ELSE 1 - dayOfWeek

(* getCurrentWeekStart: setDate(getDate() + mondayOffset); setHours(0,0,0,0) *)
getCurrentWeekStart(t, z) ==
    LET dayOfWeek == getDay(t, z)
        monday == LocalDate(t, z) + mondayOffset(dayOfWeek)
    IN  FromLocalMs(monday * MsPerDay, z)

(* date.toISOString().split('T')[0]: the UTC calendar day of the instant *)
(* a date string one day after the UTC date of the instant *)
toISODate_NextDay(t) == t \div MsPerDay + 1
toISODate(t) == t \div MsPerDay

(* new Date('YYYY-MM-DD'): UTC midnight of that calendar day *)
parseISODate(d) == d * MsPerDay

(* getCurrentWeekList's window: daysToMonday, currentWeekStart, currentWeekEnd *)
daysToMonday(dayOfWeek) == IF dayOfWeek = 0 THEN 6 ELSE dayOfWeek - 1

currentWeekStart(t, z) ==
    FromLocalMs((LocalDate(t, z) - daysToMonday(getDay(t, z))) * MsPerDay, z)

currentWeekEnd(t, z) ==
    LET startDay == LocalDate(currentWeekStart(t, z), z)
    IN  FromLocalMs((startDay + 6) * MsPerDay
                    + 23 * MsPerHour + 59 * 60 * 1000 + 59 * 1000 + 999, z)

-----------------------------------------------------------------------------
(* Rows and queries *)

(* a test of input.list_id that no value passes *)
Truthy_Never(v) == FALSE
(* if (input.list_id): undefined, null and 0 do not pass *)
Truthy(v) == v # UNDEFINED /\ v # NULL /\ v # 0

(* the select on users taken to find a row whatever the id *)
UserExists_Any(id) == users # {}
UserExists(id) == id \in users
CategoryExists(id) == id \in categories
CouplesById(id) == {c \in couples : c.id = id}
ListsById(id) == {l \in groceryLists : l.id = id}
(* the select on grocery_items without its where clause *)
ItemsById_Any(id) == groceryItems
ItemsById(id) == {i \in groceryItems : i.id = id}

(* the two selects on couples: by user1_id, then by user2_id *)
userCouples(u) == {c \in couples : c.user1_id = u}
(* the select on couples by user2_id without its where clause *)
userCouples2_Any(u) == couples
userCouples2(u) == {c \in couples : c.user2_id = u}
allUserCouples(u) == userCouples(u) \cup userCouples2(u)
(* allUserCouples[0] of [...userCouples, ...userCouples2]: a row of the    *)
(* first select when it has any, else a row of the second; the order of    *)
(* rows within one select is not specified by the query                    *)
firstUserCouples(u) == IF userCouples(u) # {} THEN userCouples(u) ELSE userCouples2(u)

(* the same select without its couple_id condition *)
WeekLists_AnyCouple(c, d) == {l \in groceryLists : l.week_start = d}

(* select from grocery_lists where couple_id = c and week_start = d *)
WeekLists(c, d) == {l \in groceryLists : l.couple_id = c /\ l.week_start = d}

(* an insert that leaves the table alone when the couple has a list for the week *)
InsertList_IfAbsent(lists, row) ==
    IF \E l \in lists : l.couple_id = row.couple_id /\ l.week_start = row.week_start
    THEN lists
    ELSE lists \cup {row}

(* insert into grocery_lists ... returning: the table with the new row *)
InsertList(lists, row) == lists \cup {row}

(* rows as inserted; the created_at columns of couples and grocery_lists,  *)
(* which no handler reads, are left out                                    *)
NewCouple(id, u1, u2) == [id |-> id, user1_id |-> u1, user2_id |-> u2]

NewList(id, c, d) == [id |-> id, couple_id |-> c, week_start |-> d]

(* input.quantity || null *)
QuantityOrNull(q) == IF q = "" \/ q = NullText THEN NullText ELSE q

(* the values of the item insert with the completion columns filled in *)
NewItem_Completed(id, listId, input, t) ==
    [id |-> id, list_id |-> listId, category_id |-> input.category_id,
     name |-> input.name, quantity |-> QuantityOrNull(input.quantity),
     is_completed |-> TRUE, added_by_user_id |-> input.added_by_user_id,
     completed_by_user_id |-> input.added_by_user_id, created_at |-> t,
     completed_at |-> t]

NewItem(id, listId, input, t) ==
    [id |-> id,
     list_id |-> listId,
     category_id |-> input.category_id,
     name |-> input.name,
     quantity |-> QuantityOrNull(input.quantity),
     is_completed |-> FALSE,
     added_by_user_id |-> input.added_by_user_id,
     completed_by_user_id |-> NULL,
     created_at |-> t,
     completed_at |-> NULL]

(* the .set({...}) with completed_by_user_id not cleared on un-completing *)
ToggleSet_KeepsUser(isCurrentlyCompleted, user_id, t) ==
    [is_completed |-> ~isCurrentlyCompleted,
     completed_by_user_id |-> user_id,
     completed_at |-> IF ~isCurrentlyCompleted THEN t ELSE NULL]

(* the .set({...}) setting the flag instead of flipping it *)
ToggleSet_AlwaysComplete(isCurrentlyCompleted, user_id, t) ==
    [is_completed |-> TRUE, completed_by_user_id |-> user_id, completed_at |-> t]

(* the .set({...}) with completed_at left out *)
ToggleSet_NoTimestamp(isCurrentlyCompleted, user_id, t) ==
    [is_completed |-> ~isCurrentlyCompleted,
     completed_by_user_id |-> IF ~isCurrentlyCompleted THEN user_id ELSE NULL,
     completed_at |-> NULL]

(* the .set({...}) of toggleItemCompletion, from the flag that was read *)
ToggleSet(isCurrentlyCompleted, user_id, t) ==
    [is_completed |-> ~isCurrentlyCompleted,
     completed_by_user_id |-> IF ~isCurrentlyCompleted THEN user_id ELSE NULL,
     completed_at |-> IF ~isCurrentlyCompleted THEN t ELSE NULL]

ApplySet(row, set) ==
    [row EXCEPT !.is_completed = set.is_completed,
                !.completed_by_user_id = set.completed_by_user_id,
                !.completed_at = set.completed_at]

(* update grocery_items set ... without the where clause *)
UpdateItems_AllRows(items, itemId, set) == {ApplySet(i, set) : i \in items}

(* update grocery_items set ... where id = itemId *)
UpdateItems(items, itemId, set) ==
    {IF i.id = itemId THEN ApplySet(i, set) ELSE i : i \in items}

(* delete from grocery_items without the where clause: the rows deleted *)
DeletedRows_All(items, itemId) == items

(* a delete that matches no row *)
DeletedRows_None(items, itemId) == {}

(* delete from grocery_items where id = itemId: the rows deleted *)
DeletedRows(items, itemId) == {i \in items : i.id = itemId}
(* (result.rowCount ?? 0) >= 0 *)
RowsAffected_Always(deleted) == Cardinality(deleted) >= 0
(* (result.rowCount ?? 0) > 0 *)
RowsAffected(deleted) == Cardinality(deleted) > 0

(* thrown errors: the entity, the id in the message, the message's wording *)
Err(what, id, how) == [what |-> what, id |-> id, how |-> how]
NoErr == Err("", NULL, "")

(* The record of the last call: its input, the instant it ran at, the      *)
(* value returned or the error thrown; `before` keeps the rows the call    *)
(* targeted as they were when it started, and `first` what `before` was in *)
(* the call just before it when that call was the same operation on the    *)
(* same item and returned.                                                 *)
ItemOps == {"toggleItemCompletion", "removeGroceryItem"}
Prior(op, arg) ==
    IF op \in ItemOps /\ last.op = op /\ last.ok /\ last.arg.item_id = arg.item_id
    THEN last.before
    ELSE {}
Ok(op, arg, ret, before) ==
    [op |-> op, arg |-> arg, at |-> now, ok |-> TRUE, err |-> NoErr, ret |-> ret,
     before |-> before, first |-> Prior(op, arg)]
Thrown(op, arg, e) ==
    [op |-> op, arg |-> arg, at |-> now, ok |-> FALSE, err |-> e, ret |-> {},
     before |-> {}, first |-> {}]
NoCallYet ==
    [op |-> "none", arg |-> {}, at |-> 0, ok |-> TRUE, err |-> NoErr, ret |-> {},
     before |-> {}, first |-> {}]

(* rows inserted so far, from the serials *)
Inserted == (nextCoupleId - 1) + (nextListId - 1) + (nextItemId - 1)

-----------------------------------------------------------------------------
(* Handlers executed one call at a time: each action is one whole call *)

AddInputs ==
    [list_id : {UNDEFINED} \cup ListIds, category_id : CategoryIds, name : Names,
     quantity : Quantities, added_by_user_id : UserIds]

(* the insert into grocery_items and the return of result[0] *)
InsertItem(input, listId, lists, listSerial) ==
    /\ Inserted + (listSerial - nextListId) < MaxRows
    /\ LET row == NewItem(nextItemId, listId, input, now)
       IN  /\ groceryItems' = groceryItems \cup {row}
           /\ nextItemId' = nextItemId + 1
           /\ groceryLists' = lists
           /\ nextListId' = listSerial
           /\ last' = Ok("addGroceryItem", input, row, {})
    /\ UNCHANGED <<tz, now, users, categories, couples, nextCoupleId, calls>>

Throw(op, input, e) ==
    /\ last' = Thrown(op, input, e)
    /\ UNCHANGED <<tz, now, store, calls>>

(* an error of the store on a statement that had rows to act on *)
ThrowOn(op, input, e, rows) ==
    /\ last' = [Thrown(op, input, e) EXCEPT !.before = rows]
    /\ UNCHANGED <<tz, now, store, calls>>

addGroceryItem(input) ==
    LET u == input.added_by_user_id IN
    IF ~UserExists(u)
    THEN Throw("addGroceryItem", input, Err("User", u, "does not exist"))
    ELSE IF ~CategoryExists(input.category_id)
    THEN Throw("addGroceryItem", input, Err("Category", input.category_id, "does not exist"))
    ELSE IF Truthy(input.list_id)
    THEN IF ListsById(input.list_id) = {}
         THEN Throw("addGroceryItem", input, Err("Grocery list", input.list_id, "does not exist"))
         ELSE InsertItem(input, input.list_id, groceryLists, nextListId)
    ELSE IF allUserCouples(u) = {}
    THEN Throw("addGroceryItem", input, Err("User", u, "is not part of any couple"))
    ELSE \E couple \in firstUserCouples(u) :
            LET weekStart == getCurrentWeekStart(now, tz)
                groceryList == WeekLists(couple.id, toISODate(weekStart))
            IN  IF groceryList = {}
                THEN InsertItem(input, nextListId,
                                InsertList(groceryLists,
                                           NewList(nextListId, couple.id,
                                                   toISODate(weekStart))),
                                nextListId + 1)
                ELSE \E l \in groceryList :
                        InsertItem(input, l.id, groceryLists, nextListId)

ToggleInputs == [item_id : ItemIds, user_id : UserIds]

(* a store without the foreign key on completed_by_user_id *)
CompletedByFkOk_Unchecked(items) == TRUE

(* grocery_items.completed_by_user_id references users.id: the store      *)
(* rejects an update that would leave a row pointing at no user             *)
CompletedByFkOk(items) ==
    \A i \in items : i.completed_by_user_id = NULL \/ i.completed_by_user_id \in users

(* result[0] of a .returning() update: a row, or undefined when there is none *)
NoRow == [id |-> UNDEFINED]
FirstRows(rows) == IF rows = {} THEN {NoRow} ELSE rows

toggleItemCompletion(input) ==
    LET currentItems == ItemsById(input.item_id) IN
    IF currentItems = {}
    THEN Throw("toggleItemCompletion", input,
               Err("Grocery item", input.item_id, "not found"))
    ELSE \E currentItem \in currentItems :
            LET set == ToggleSet(currentItem.is_completed, input.user_id, now)
                items == UpdateItems(groceryItems, input.item_id, set)
            IN  IF ~CompletedByFkOk(items)
                THEN ThrowOn("toggleItemCompletion", input,
                             Err("User", input.user_id,
                                 "violates foreign key constraint"),
                             currentItems)
                ELSE /\ groceryItems' = items
                     /\ \E r \in FirstRows({i \in items : i.id = input.item_id}) :
                           last' = Ok("toggleItemCompletion", input, r, currentItems)
                     /\ UNCHANGED <<tz, now, users, categories, couples, groceryLists,
                                    nextCoupleId, nextListId, nextItemId, calls>>

RemoveInputs == [item_id : ItemIds]

removeGroceryItem(input) ==
    LET deleted == DeletedRows(groceryItems, input.item_id) IN
    /\ groceryItems' = groceryItems \ deleted
    /\ last' = Ok("removeGroceryItem", input, [success |-> RowsAffected(deleted)], deleted)
    /\ UNCHANGED <<tz, now, users, categories, couples, groceryLists,
                   nextCoupleId, nextListId, nextItemId, calls>>

CreateCoupleInputs == [user1_id : UserIds, user2_id : UserIds]

(* createCouple with the check of user2 before the check of user1 *)
createCouple_ChecksUser2First(input) ==
    IF ~UserExists(input.user2_id)
    THEN Throw("createCouple", input, Err("User", input.user2_id, "does not exist"))
    ELSE IF ~UserExists(input.user1_id)
    THEN Throw("createCouple", input, Err("User", input.user1_id, "does not exist"))
    ELSE /\ Inserted < MaxRows
         /\ LET row == NewCouple(nextCoupleId, input.user1_id, input.user2_id)
            IN  /\ couples' = couples \cup {row}
                /\ last' = Ok("createCouple", input, row, {})
         /\ nextCoupleId' = nextCoupleId + 1
         /\ UNCHANGED <<tz, now, users, categories, groceryLists, groceryItems,
                        nextListId, nextItemId, calls>>

createCouple(input) ==
    IF ~UserExists(input.user1_id)
    THEN Throw("createCouple", input, Err("User", input.user1_id, "does not exist"))
    ELSE IF ~UserExists(input.user2_id)
    THEN Throw("createCouple", input, Err("User", input.user2_id, "does not exist"))
    ELSE /\ Inserted < MaxRows
         /\ LET row == NewCouple(nextCoupleId, input.user1_id, input.user2_id)
            IN  /\ couples' = couples \cup {row}
                /\ last' = Ok("createCouple", input, row, {})
         /\ nextCoupleId' = nextCoupleId + 1
         /\ UNCHANGED <<tz, now, users, categories, groceryLists, groceryItems,
                        nextListId, nextItemId, calls>>

CreateGroceryListInputs == [couple_id : CoupleIds, week_start : WeekStartInputs]

createGroceryList(input) ==
    IF CouplesById(input.couple_id) = {}
    THEN Throw("createGroceryList", input, Err("Couple", input.couple_id, "does not exist"))
    ELSE /\ Inserted < MaxRows
         /\ LET row == NewList(nextListId, input.couple_id,
                               toISODate(input.week_start))
            IN  /\ groceryLists' = InsertList(groceryLists, row)
                /\ last' = Ok("createGroceryList", input, [row EXCEPT !.week_start = parseISODate(row.week_start)],
                              {})
         /\ nextListId' = nextListId + 1
         /\ UNCHANGED <<tz, now, users, categories, couples, groceryItems,
                        nextCoupleId, nextItemId, calls>>

GetCurrentWeekListInputs == [couple_id : CoupleIds]

(* the join with gt and lt in place of gte and lte *)
CurrentWeekRows_Exclusive(couple_id, t, z) ==
    LET weekStartStr == toISODate(currentWeekStart(t, z))
        weekEndStr == toISODate(currentWeekEnd(t, z))
    IN  {r \in groceryItems \X groceryLists \X categories :
            /\ r[1].list_id = r[2].id
            /\ r[1].category_id = r[3]
            /\ r[2].couple_id = couple_id
            /\ r[2].week_start > weekStartStr
            /\ r[2].week_start < weekEndStr}

(* the rows of items join lists join categories that pass the where clause *)
CurrentWeekRows(couple_id, t, z) ==
    LET weekStartStr == toISODate(currentWeekStart(t, z))
        weekEndStr == toISODate(currentWeekEnd(t, z))
    IN  {r \in groceryItems \X groceryLists \X categories :
            /\ r[1].list_id = r[2].id
            /\ r[1].category_id = r[3]
            /\ r[2].couple_id = couple_id
            /\ r[2].week_start >= weekStartStr
            /\ r[2].week_start <= weekEndStr}

(* results.map(...): one element per joined row, the item's columns with   *)
(* the joined category nested in it; the array as a bag (element |-> how   *)
(* many times it occurs), its order being whatever the database returns    *)
CurrentWeekResult(results) ==
    LET element(r) == [item |-> r[1], category |-> [id |-> r[3]]]
    IN  [x \in {element(r) : r \in results} |->
            Cardinality({r \in results : element(r) = x})]

getCurrentWeekList(input) ==
    /\ last' = Ok("getCurrentWeekList", input,
                  CurrentWeekResult(CurrentWeekRows(input.couple_id, now, tz)), {})
    /\ UNCHANGED <<tz, now, store, calls>>

(* the arrays a select ... order by week_start returns: every row once,   *)
(* ascending, rows of equal week_start in any order                        *)
OrderByWeekStart_Ascending(rows) ==
    {s \in [1..Cardinality(rows) -> rows] :
        /\ \A i, j \in 1..Cardinality(rows) : i # j => s[i] # s[j]
        /\ \A i, j \in 1..Cardinality(rows) :
              i < j => s[i].week_start <= s[j].week_start}

(* the arrays a select ... order by desc(week_start) returns: every row    *)
(* once, descending, rows of equal week_start in any order                 *)
OrderByWeekStartDesc(rows) ==
    {s \in [1..Cardinality(rows) -> rows] :
        /\ \A i, j \in 1..Cardinality(rows) : i # j => s[i] # s[j]
        /\ \A i, j \in 1..Cardinality(rows) :
              i < j => s[i].week_start >= s[j].week_start}

GetGroceryListsInputs == CoupleIds

getGroceryLists(coupleId) ==
    /\ \E results \in OrderByWeekStartDesc({l \in groceryLists : l.couple_id = coupleId}) :
          last' = Ok("getGroceryLists", [coupleId |-> coupleId],
                     [i \in 1..Len(results) |->
                        [results[i] EXCEPT !.week_start = parseISODate(results[i].week_start)]],
                     {})
    /\ UNCHANGED <<tz, now, store, calls>>

(* addGroceryItemInputSchema: list_id, category_id and added_by_user_id    *)
(* are z.number(), name is z.string().min(1)                               *)
addGroceryItemInputSchema(request) ==
    /\ request.list_id # UNDEFINED
    /\ request.category_id # UNDEFINED
    /\ request.added_by_user_id # UNDEFINED
    /\ request.name # ""

(* appRouter.addGroceryItem: .input(schema) rejects the request before     *)
(* the mutation runs, otherwise the mutation calls the handler             *)
addGroceryItemProcedure(request) ==
    IF ~addGroceryItemInputSchema(request)
    THEN Throw("appRouter.addGroceryItem", request, Err("Input", NULL, "validation failed"))
    ELSE addGroceryItem(request)

(* the clock advances *)
Tick ==
    /\ \E t \in Clock : t > now /\ now' = t
    /\ UNCHANGED <<tz, store, last, calls>>

-----------------------------------------------------------------------------
(* The week computation on its own *)

(* `now` at the start, the middle and the last millisecond of each UTC day *)
WeekNows ==
    {d * MsPerDay + h : d \in 0..MaxDay, h \in {0, 12 * MsPerHour, MsPerDay - 1}}

(* addGroceryItem's week start and the date it stores and looks up *)
computeWeekStart ==
    /\ last' = Ok("getCurrentWeekStart", [now |-> now],
                  [weekStart |-> getCurrentWeekStart(now, tz),
                   week_start |-> toISODate(getCurrentWeekStart(now, tz))], {})
    /\ UNCHANGED <<tz, now, store, calls>>

(* getCurrentWeekList's window and the two dates it compares with *)
computeWeekWindow ==
    /\ last' = Ok("getCurrentWeekList.window", [now |-> now],
                  [currentWeekStart |-> currentWeekStart(now, tz),
                   currentWeekEnd |-> currentWeekEnd(now, tz),
                   weekStartStr |-> toISODate(currentWeekStart(now, tz)),
                   weekEndStr |-> toISODate(currentWeekEnd(now, tz))], {})
    /\ UNCHANGED <<tz, now, store, calls>>

-----------------------------------------------------------------------------
(* Handlers executed concurrently: each action is one statement on the     *)
(* store (one await) of a call in flight.  The selects on users,           *)
(* categories and couples, tables that no concurrent call writes, are      *)
(* taken together with the call's first step.                              *)

Procs == {"p", "q"}

NoCall == [pc |-> "idle", op |-> "none", input |-> {}, mem |-> {}, ok |-> TRUE,
           err |-> NoErr, ret |-> {}]

Free(p) == calls[p].pc \in {"idle", "done"}

Running(op, input, pc, mem) ==
    [pc |-> pc, op |-> op, input |-> input, mem |-> mem, ok |-> TRUE,
     err |-> NoErr, ret |-> {}]
Returned(c, ret) == [c EXCEPT !.pc = "done", !.ret = ret]
Rejected(op, input, e) ==
    [pc |-> "done", op |-> op, input |-> input, mem |-> {}, ok |-> FALSE,
     err |-> e, ret |-> {}]

(* rows the concurrent calls have inserted (they insert no couple) *)
InsertedLive == (nextListId - 1) + (nextItemId - 1)

AddMem(coupleId, week_start, listId, sawNoList) ==
    [coupleId |-> coupleId, week_start |-> week_start, listId |-> listId,
     sawNoList |-> sawNoList]

(* addGroceryItem up to the resolution of the couple and the week start *)
AddBegin(p, input) ==
    LET u == input.added_by_user_id
        op == "addGroceryItem"
    IN
    /\ Free(p)
    /\ IF ~UserExists(u)
       THEN calls' = [calls EXCEPT ![p] =
                        Rejected(op, input, Err("User", u, "does not exist"))]
       ELSE IF ~CategoryExists(input.category_id)
       THEN calls' = [calls EXCEPT ![p] =
                        Rejected(op, input,
                                 Err("Category", input.category_id, "does not exist"))]
       ELSE IF Truthy(input.list_id)
       THEN IF ListsById(input.list_id) = {}
            THEN calls' = [calls EXCEPT ![p] =
                             Rejected(op, input,
                                      Err("Grocery list", input.list_id,
                                          "does not exist"))]
            ELSE \E l \in ListsById(input.list_id) :
                    calls' = [calls EXCEPT ![p] =
                                Running(op, input, "insertItem",
                                        AddMem(l.couple_id, NULL, input.list_id, FALSE))]
       ELSE IF allUserCouples(u) = {}
       THEN calls' = [calls EXCEPT ![p] =
                        Rejected(op, input, Err("User", u, "is not part of any couple"))]
       ELSE \E couple \in firstUserCouples(u) :
               calls' = [calls EXCEPT ![p] =
                           Running(op, input, "findList",
                                   AddMem(couple.id,
                                          toISODate(getCurrentWeekStart(now, tz)),
                                          NULL, FALSE))]
    /\ UNCHANGED <<tz, now, store, last>>

(* the select of the couple's list of the week *)
AddFindList(p) ==
    LET c == calls[p]
        groceryList == WeekLists(c.mem.coupleId, c.mem.week_start)
    IN
    /\ c.pc = "findList"
    /\ IF groceryList = {}
       THEN calls' = [calls EXCEPT ![p].pc = "insertList", ![p].mem.sawNoList = TRUE]
       ELSE \E l \in groceryList :
               calls' = [calls EXCEPT ![p].pc = "insertItem", ![p].mem.listId = l.id]
    /\ UNCHANGED <<tz, now, store, last>>

(* the insert of a new list for the week *)
AddInsertList(p) ==
    LET c == calls[p] IN
    /\ c.pc = "insertList"
    /\ InsertedLive < MaxRows
    /\ groceryLists' = InsertList(groceryLists,
                                  NewList(nextListId, c.mem.coupleId, c.mem.week_start))
    /\ nextListId' = nextListId + 1
    /\ calls' = [calls EXCEPT ![p].pc = "insertItem", ![p].mem.listId = nextListId]
    /\ UNCHANGED <<tz, now, users, categories, couples, groceryItems, nextCoupleId,
                   nextItemId, last>>

(* the insert of the item *)
AddInsertItem(p) ==
    LET c == calls[p]
        row == NewItem(nextItemId, c.mem.listId, c.input, now)
    IN
    /\ c.pc = "insertItem"
    /\ InsertedLive < MaxRows
    /\ groceryItems' = groceryItems \cup {row}
    /\ nextItemId' = nextItemId + 1
    /\ calls' = [calls EXCEPT ![p] = Returned(c, row)]
    /\ UNCHANGED <<tz, now, users, categories, couples, groceryLists, nextCoupleId,
                   nextListId, last>>

(* toggleItemCompletion's select of the current item *)
ToggleBegin(p, input) ==
    LET op == "toggleItemCompletion"
        currentItems == ItemsById(input.item_id)
    IN
    /\ Free(p)
    /\ IF currentItems = {}
       THEN calls' = [calls EXCEPT ![p] =
                        Rejected(op, input,
                                 Err("Grocery item", input.item_id, "not found"))]
       ELSE \E currentItem \in currentItems :
               calls' = [calls EXCEPT ![p] =
                           Running(op, input, "update",
                                   [isCurrentlyCompleted |-> currentItem.is_completed])]
    /\ UNCHANGED <<tz, now, store, last>>

(* toggleItemCompletion's update ... returning *)
ToggleUpdate(p) ==
    LET c == calls[p]
        set == ToggleSet(c.mem.isCurrentlyCompleted, c.input.user_id, now)
        items == UpdateItems(groceryItems, c.input.item_id, set)
    IN
    /\ c.pc = "update"
    /\ IF ~CompletedByFkOk(items)
       THEN /\ calls' = [calls EXCEPT ![p] =
                           Rejected(c.op, c.input,
                                    Err("User", c.input.user_id,
                                        "violates foreign key constraint"))]
            /\ UNCHANGED groceryItems
       ELSE /\ groceryItems' = items
            /\ \E r \in FirstRows({i \in items : i.id = c.input.item_id}) :
                  calls' = [calls EXCEPT ![p] = Returned(c, r)]
    /\ UNCHANGED <<tz, now, users, categories, couples, groceryLists, nextCoupleId,
                   nextListId, nextItemId, last>>

(* removeGroceryItem: its one delete *)
Remove(p, input) ==
    LET deleted == DeletedRows(groceryItems, input.item_id) IN
    /\ Free(p)
    /\ groceryItems' = groceryItems \ deleted
    /\ calls' = [calls EXCEPT ![p] =
                    Returned(Running("removeGroceryItem", input, "delete", {}),
                             [success |-> RowsAffected(deleted)])]
    /\ UNCHANGED <<tz, now, users, categories, couples, groceryLists, nextCoupleId,
                   nextListId, nextItemId, last>>

-----------------------------------------------------------------------------
(* Specifications *)

(* The store once the users and categories exist (createUser and           *)
(* createCategory have run), with no couple, list or item yet.             *)
Init ==
    /\ tz \in TimeZones
    /\ now = ClockStart
    /\ users = SeedUsers
    /\ categories = SeedCategories
    /\ couples = {}
    /\ groceryLists = {}
    /\ groceryItems = {}
    /\ nextCoupleId = 1
    /\ nextListId = 1
    /\ nextItemId = 1
    /\ last = NoCallYet
    /\ calls = {}

(* Couples, lists and the week: calls made one at a time *)
ListsAddInputs ==
    [list_id : {UNDEFINED, 1}, category_id : SeedCategories, name : Names,
     quantity : {""}, added_by_user_id : SeedUsers]
ListsCoupleInputs == [user1_id : SeedUsers, user2_id : SeedUsers]
ListsCreateInputs == [couple_id : {1, 2}, week_start : WeekStartInputs]
ListsQueryInputs == [couple_id : {1, 2}]

NextLists ==
    \/ \E input \in ListsCoupleInputs : createCouple(input)
    \/ \E input \in ListsCreateInputs : createGroceryList(input)
    \/ \E input \in ListsAddInputs : addGroceryItem(input)
    \/ \E input \in ListsQueryInputs : getCurrentWeekList(input)
    \/ Tick

SpecLists == Init /\ [][NextLists]_vars

(* Items of the couple's list: calls made one at a time, from the store    *)
(* in which users 1 and 2 are a couple (createCouple has run)              *)
InitItems ==
    /\ tz \in TimeZones
    /\ now = ClockStart
    /\ users = SeedUsers
    /\ categories = SeedCategories
    /\ couples = {NewCouple(1, 1, 2)}
    /\ groceryLists = {}
    /\ groceryItems = {}
    /\ nextCoupleId = 2
    /\ nextListId = 1
    /\ nextItemId = 1
    /\ last = NoCallYet
    /\ calls = {}

ItemsAddInputs ==
    [list_id : {UNDEFINED}, category_id : SeedCategories, name : Names,
     quantity : Quantities, added_by_user_id : {1}]

NextItems ==
    \/ \E input \in ItemsAddInputs : addGroceryItem(input)
    \/ \E input \in ToggleInputs : toggleItemCompletion(input)
    \/ \E input \in RemoveInputs : removeGroceryItem(input)
    \/ Tick

SpecItems == InitItems /\ [][NextItems]_vars

(* The week computation, for every instant and time zone tried *)
InitWeek ==
    /\ tz \in TimeZones
    /\ now \in WeekNows
    /\ users = SeedUsers
    /\ categories = SeedCategories
    /\ couples = {}
    /\ groceryLists = {}
    /\ groceryItems = {}
    /\ nextCoupleId = 1
    /\ nextListId = 1
    /\ nextItemId = 1
    /\ last = NoCallYet
    /\ calls = {}

NextWeek ==
    \/ computeWeekStart
    \/ computeWeekWindow

SpecWeek == InitWeek /\ [][NextWeek]_vars

(* Concurrent calls of the couple's two users, from the store in which     *)
(* users 1 and 2 are a couple; the server runs in UTC and the calls are    *)
(* made at one instant of the clock                                        *)
InitLive ==
    /\ tz = 0
    /\ now = ClockStart
    /\ users = SeedUsers
    /\ categories = SeedCategories
    /\ couples = {NewCouple(1, 1, 2)}
    /\ groceryLists = {}
    /\ groceryItems = {}
    /\ nextCoupleId = 2
    /\ nextListId = 1
    /\ nextItemId = 1
    /\ last = NoCallYet
    /\ calls = [p \in Procs |-> NoCall]

LiveAddInputs ==
    [list_id : {UNDEFINED}, category_id : SeedCategories, name : Names,
     quantity : {""}, added_by_user_id : SeedUsers]
LiveToggleInputs == [item_id : {1, 2}, user_id : SeedUsers]
LiveRemoveInputs == [item_id : {1, 2}]

NextLive ==
    \/ \E p \in Procs : \E input \in LiveAddInputs : AddBegin(p, input)
    \/ \E p \in Procs : AddFindList(p)
    \/ \E p \in Procs : AddInsertList(p)
    \/ \E p \in Procs : AddInsertItem(p)
    \/ \E p \in Procs : \E input \in LiveToggleInputs : ToggleBegin(p, input)
    \/ \E p \in Procs : ToggleUpdate(p)
    \/ \E p \in Procs : \E input \in LiveRemoveInputs : Remove(p, input)

SpecLive == InitLive /\ [][NextLive]_vars

(* Adding items, with inputs that name users, categories and lists that   *)
(* do not exist, by users of one couple, of several and of none            *)
ApiUserIds == SeedUsers \cup {3, 4}
ApiAddInputs ==
    [list_id : {UNDEFINED, 0, 1, 2}, category_id : CategoryIds, name : Names,
     quantity : {""}, added_by_user_id : UserIds]
ApiCoupleInputs == [user1_id : ApiUserIds, user2_id : ApiUserIds]
ApiListInputs == [couple_id : {1}, week_start : {0}]

NextAdd ==
    \/ \E input \in ApiCoupleInputs : createCouple(input)
    \/ \E input \in ApiListInputs : createGroceryList(input)
    \/ \E input \in ApiAddInputs : addGroceryItem(input)

SpecAdd == Init /\ [][NextAdd]_vars

(* Creating and listing the lists of couples, with inputs that name        *)
(* couples that do not exist and week starts with a time of day            *)
ApiCreateInputs ==
    [couple_id : {1, 2, 3},
     week_start : {0, 3 * MsPerDay + 13 * MsPerHour, 7 * MsPerDay}]

NextCreate ==
    \/ \E input \in ListsCoupleInputs : createCouple(input)
    \/ \E input \in ApiCreateInputs : createGroceryList(input)
    \/ \E coupleId \in GetGroceryListsInputs : getGroceryLists(coupleId)

SpecCreate == Init /\ [][NextCreate]_vars

(* Requests to the addGroceryItem procedure of the router, from the store  *)
(* in which users 1 and 2 are a couple                                     *)
RpcAddRequests ==
    [list_id : {UNDEFINED, 0, 1, 2}, category_id : SeedCategories, name : Names,
     quantity : Quantities, added_by_user_id : SeedUsers]

NextRpc ==
    \/ \E request \in RpcAddRequests : addGroceryItemProcedure(request)
    \/ Tick

SpecRpc == InitItems /\ [][NextRpc]_vars

(* The current-week query over stores of two couples: any lists the      *)
(* couples can have created (ids 1..n, any week_start around this week)   *)
(* and any items left in them after adds and removes                      *)
MaxStoredLists == 2
MaxStoredItems == 2

StoredWeekStarts == {0 - 1, 0, 6, 7}
StoredItemInput ==
    [category_id |-> 1, name |-> "Milk", quantity |-> "", added_by_user_id |-> 1]

InitQuery ==
    /\ tz \in TimeZones
    /\ now = ClockStart
    /\ users = SeedUsers
    /\ categories = SeedCategories
    /\ couples = {NewCouple(1, 1, 2), NewCouple(2, 2, 1)}
    /\ nextCoupleId = 3
    /\ \E n \in 0..MaxStoredLists :
          /\ nextListId = n + 1
          /\ \E owner \in [1..n -> {1, 2}], week \in [1..n -> StoredWeekStarts] :
                groceryLists = {NewList(id, owner[id], week[id]) : id \in 1..n}
          /\ \E listOf \in [1..MaxStoredItems -> 0..n] :
                groceryItems =
                    {NewItem(id, listOf[id], StoredItemInput, ClockStart) :
                        id \in {i \in 1..MaxStoredItems : listOf[i] # 0}}
    /\ nextItemId = MaxStoredItems + 1
    /\ last = NoCallYet
    /\ calls = {}

NextQuery ==
    \E input \in ListsQueryInputs : getCurrentWeekList(input)

SpecQuery == InitQuery /\ [][NextQuery]_vars

(* Every handler that writes, with ids that exist and ids that do not *)
StoreCoupleInputs == [user1_id : {1, 3}, user2_id : {2, 3}]
StoreListInputs == [couple_id : {1, 2}, week_start : {0}]
StoreAddInputs ==
    [list_id : {UNDEFINED, 1, 2}, category_id : CategoryIds, name : Names,
     quantity : {""}, added_by_user_id : {1, 3}]

NextStore ==
    \/ \E input \in StoreCoupleInputs : createCouple(input)
    \/ \E input \in StoreListInputs : createGroceryList(input)
    \/ \E input \in StoreAddInputs : addGroceryItem(input)
    \/ \E input \in ToggleInputs : toggleItemCompletion(input)
    \/ \E input \in RemoveInputs : removeGroceryItem(input)

SpecStore == Init /\ [][NextStore]_vars

-----------------------------------------------------------------------------
(* The browser client (App).  `calls` maps each open browser to the state  *)
(* of its App component: the useState values, the remote call it is        *)
(* awaiting (pc) and what follows the current loadGroceryItems (after).    *)
(* A response travels back in `last`: the backend serves a request when no *)
(* response is on its way, and the awaiting client takes it from there.    *)
(* The user does one thing at a time and waits for it to settle; state     *)
(* changes made in one synchronous stretch of a handler show as one step.  *)

COUPLE_ID == 1
USER_ID == 1
DEFAULT_CATEGORIES == 1..5

AddFailed == "Failed to add item. Please try again."
UpdateFailed == "Failed to update item. Please try again."
RemoveFailed == "Failed to remove item. Please try again."

(* useState<GroceryList | null>(null) *)
NoWeekList ==
    [id |-> NULL, couple_id |-> NULL, week_start |-> NULL, origin |-> "none"]

(* a list as received from the backend *)
FromBackend(list) ==
    [id |-> list.id, couple_id |-> list.couple_id, week_start |-> list.week_start,
     origin |-> "backend"]

createOfflineCurrentWeekList ==
    [id |-> 1, couple_id |-> COUPLE_ID, week_start |-> getCurrentWeekStart(now, tz),
     origin |-> "offline"]

EmptyForm == [name |-> "", quantity |-> "", category_id |-> NULL]
FormInputs == [name : Names, quantity : {""}, category_id : SeedCategories]

(* the component as first rendered *)
App ==
    [pc |-> "mount", after |-> "none", itemId |-> 0, groceryItems |-> {},
     categories |-> {}, currentWeekList |-> NoWeekList, isLoading |-> FALSE,
     isSubmitting |-> FALSE, error |-> NullText, isOfflineMode |-> FALSE,
     nextItemId |-> 1, formData |-> EmptyForm]

Clients == DOMAIN calls
Awaited == {"getGroceryLists", "createGroceryList", "getCurrentWeekList",
            "addGroceryItem", "toggleItemCompletion", "removeGroceryItem"}

(* the inputs the client sends *)
createGroceryListInput ==
    [couple_id |-> COUPLE_ID, week_start |-> getCurrentWeekStart(now, tz)]
newItemInput(c) ==
    [list_id |-> calls[c].currentWeekList.id,
     category_id |-> calls[c].formData.category_id,
     name |-> calls[c].formData.name,
     quantity |-> QuantityOrNull(calls[c].formData.quantity),
     added_by_user_id |-> USER_ID]
toggleInput(c) == [item_id |-> calls[c].itemId, user_id |-> USER_ID]
removeInput(c) == [item_id |-> calls[c].itemId]

(* the call of loadGroceryItems up to its await: setError(null) and the    *)
(* query sent                                                              *)
loadGroceryItemsCalled(app, after) ==
    [app EXCEPT !.error = NullText, !.pc = "getCurrentWeekList", !.after = after]

(* what runs when the loadGroceryItems that was awaited or left running    *)
(* has settled                                                             *)
Settled(app) ==
    IF app.after = "initializeData"
    THEN [app EXCEPT !.isLoading = FALSE, !.pc = "ready", !.after = "none"]
    ELSE IF app.after = "handleAddItem"
    THEN [app EXCEPT !.formData = EmptyForm, !.isSubmitting = FALSE,
                     !.pc = "ready", !.after = "none"]
    ELSE [app EXCEPT !.pc = "ready", !.after = "none"]

(* the catch block of whichever function awaits the call that failed *)
Caught(app) ==
    IF app.pc \in {"getGroceryLists", "createGroceryList"}
    THEN loadGroceryItemsCalled(
             [app EXCEPT !.isOfflineMode = TRUE,
                         !.currentWeekList = createOfflineCurrentWeekList],
             "initializeData")
    ELSE IF app.pc = "getCurrentWeekList"
    THEN Settled([app EXCEPT !.isOfflineMode = TRUE, !.groceryItems = {}])
    ELSE IF app.pc = "addGroceryItem"
    THEN [app EXCEPT !.error = AddFailed, !.isSubmitting = FALSE, !.pc = "ready"]
    ELSE IF app.pc = "toggleItemCompletion"
    THEN loadGroceryItemsCalled([app EXCEPT !.error = UpdateFailed], "sync")
    ELSE loadGroceryItemsCalled([app EXCEPT !.error = RemoveFailed], "sync")

(* the response in `last` is the one client c is awaiting *)
Answered(c, op, input) ==
    /\ calls[c].pc = op
    /\ last.op = op
    /\ last.arg = input

(* a client step: the new state of the component, the response taken *)
Render(c, app, taken) ==
    /\ calls' = [calls EXCEPT ![c] = app]
    /\ last' = IF taken THEN NoCallYet ELSE last
    /\ UNCHANGED <<tz, now, store>>

(* useEffect on mount: setIsLoading(true) and loadCategories called *)
initializeData(c) ==
    /\ calls[c].pc = "mount"
    /\ Render(c, [calls[c] EXCEPT !.isLoading = TRUE, !.pc = "getCategories"], FALSE)

(* loadCategories once getCategories has answered or failed, and then      *)
(* ensureCurrentWeekList up to its first query                             *)
loadCategories(c) ==
    /\ calls[c].pc = "getCategories"
    /\ \E ok \in BOOLEAN :
          Render(c, [calls[c] EXCEPT
                        !.categories = IF ok THEN categories ELSE DEFAULT_CATEGORIES,
                        !.isOfflineMode = ~ok,
                        !.pc = "getGroceryLists"], FALSE)

(* the first list of the array whose week_start has the date of the        *)
(* client's current week start: existingLists.find(...)                    *)
FindCurrentWeekList(existingLists) ==
    LET currentWeekStartStr == toISODate(getCurrentWeekStart(now, tz))
        matches == {i \in DOMAIN existingLists :
                       toISODate(existingLists[i].week_start) = currentWeekStartStr}
    IN  {existingLists[i] : i \in {j \in matches : \A k \in matches : j <= k}}

(* ensureCurrentWeekList once getGroceryLists has answered *)
ensureCurrentWeekList(c) ==
    /\ Answered(c, "getGroceryLists", [coupleId |-> COUPLE_ID])
    /\ IF ~last.ok
       THEN Render(c, Caught(calls[c]), TRUE)
       ELSE IF FindCurrentWeekList(last.ret) = {}
       THEN Render(c, [calls[c] EXCEPT !.pc = "createGroceryList"], TRUE)
       ELSE \E existingCurrentWeekList \in FindCurrentWeekList(last.ret) :
               Render(c, loadGroceryItemsCalled(
                             [calls[c] EXCEPT !.currentWeekList =
                                 FromBackend(existingCurrentWeekList)],
                             "initializeData"), TRUE)

(* ensureCurrentWeekList once createGroceryList has answered *)
ensureCurrentWeekListCreated(c) ==
    /\ Answered(c, "createGroceryList", createGroceryListInput)
    /\ IF ~last.ok
       THEN Render(c, Caught(calls[c]), TRUE)
       ELSE Render(c, loadGroceryItemsCalled(
                          [calls[c] EXCEPT !.currentWeekList = FromBackend(last.ret)],
                          "initializeData"), TRUE)

(* loadGroceryItems once getCurrentWeekList has answered *)
loadGroceryItems(c) ==
    /\ Answered(c, "getCurrentWeekList", [couple_id |-> COUPLE_ID])
    /\ IF ~last.ok
       THEN Render(c, Caught(calls[c]), TRUE)
       ELSE Render(c, Settled([calls[c] EXCEPT !.groceryItems = DOMAIN last.ret,
                                               !.isOfflineMode = FALSE]), TRUE)

(* the user fills in the form *)
setFormData(c, form) ==
    /\ calls[c].pc = "ready"
    /\ calls[c].formData # form
    /\ form.category_id \in calls[c].categories
    /\ Render(c, [calls[c] EXCEPT !.formData = form], FALSE)

(* handleAddItem up to its first await, or to its end when offline *)
handleAddItem(c) ==
    LET app == calls[c]
        newItem == [item |-> NewItem(app.nextItemId, app.currentWeekList.id,
                                     newItemInput(c), now),
                    category |-> [id |-> app.formData.category_id]]
    IN
    /\ app.pc = "ready"
    /\ app.formData.name # ""
    /\ app.formData.category_id # NULL
    /\ ~app.isSubmitting
    /\ app.currentWeekList # NoWeekList
    /\ IF app.isOfflineMode
       THEN IF app.formData.category_id \notin app.categories
            THEN Render(c, [app EXCEPT !.error = AddFailed], FALSE)
            ELSE /\ app.nextItemId <= MaxRows
                 /\ Render(c, [app EXCEPT
                                  !.groceryItems = @ \cup {newItem},
                                  !.nextItemId = @ + 1,
                                  !.formData = EmptyForm,
                                  !.error = NullText], FALSE)
       ELSE Render(c, [app EXCEPT !.isSubmitting = TRUE, !.error = NullText,
                                  !.pc = "addGroceryItem"], FALSE)

(* handleAddItem once addGroceryItem has answered *)
handleAddItemAnswered(c) ==
    /\ Answered(c, "addGroceryItem", newItemInput(c))
    /\ IF ~last.ok
       THEN Render(c, Caught(calls[c]), TRUE)
       ELSE Render(c, loadGroceryItemsCalled(calls[c], "handleAddItem"), TRUE)

(* the map of handleToggleComplete over the local items *)
ToggleLocal(items, itemId, offline, t) ==
    {IF x.item.id # itemId THEN x
     ELSE [x EXCEPT !.item.is_completed = ~x.item.is_completed,
                    !.item.completed_by_user_id =
                        IF x.item.is_completed THEN NULL ELSE USER_ID,
                    !.item.completed_at =
                        IF ~offline THEN x.item.completed_at
                        ELSE IF x.item.is_completed THEN NULL ELSE t] :
     x \in items}

(* handleToggleComplete up to its await, or to its end when offline *)
handleToggleComplete(c, itemId) ==
    LET app == calls[c] IN
    /\ app.pc = "ready"
    /\ \E x \in app.groceryItems : x.item.id = itemId
    /\ IF app.isOfflineMode
       THEN Render(c, [app EXCEPT !.groceryItems = ToggleLocal(@, itemId, TRUE, now)],
                   FALSE)
       ELSE Render(c, [app EXCEPT !.pc = "toggleItemCompletion", !.itemId = itemId],
                   FALSE)

(* handleToggleComplete once toggleItemCompletion has answered *)
handleToggleCompleteAnswered(c) ==
    /\ Answered(c, "toggleItemCompletion", toggleInput(c))
    /\ IF ~last.ok
       THEN Render(c, Caught(calls[c]), TRUE)
       ELSE Render(c, [calls[c] EXCEPT
                          !.groceryItems = ToggleLocal(@, calls[c].itemId, FALSE, now),
                          !.pc = "ready"], TRUE)

(* handleRemoveItem up to its await, or to its end when offline *)
handleRemoveItem(c, itemId) ==
    LET app == calls[c] IN
    /\ app.pc = "ready"
    /\ \E x \in app.groceryItems : x.item.id = itemId
    /\ IF app.isOfflineMode
       THEN Render(c, [app EXCEPT !.groceryItems = {x \in @ : x.item.id # itemId}],
                   FALSE)
       ELSE Render(c, [app EXCEPT !.pc = "removeGroceryItem", !.itemId = itemId],
                   FALSE)

(* handleRemoveItem once removeGroceryItem has answered *)
handleRemoveItemAnswered(c) ==
    /\ Answered(c, "removeGroceryItem", removeInput(c))
    /\ IF ~last.ok
       THEN Render(c, Caught(calls[c]), TRUE)
       ELSE Render(c, [calls[c] EXCEPT
                          !.groceryItems = {x \in @ : x.item.id # calls[c].itemId},
                          !.pc = "ready"], TRUE)

(* the awaited call rejects without reaching the backend *)
BackendUnavailable(c) ==
    /\ calls[c].pc \in Awaited
    /\ last.op = "none"
    /\ Render(c, Caught(calls[c]), FALSE)

(* the backend takes the request of client c when pc is what c awaits *)
Requested(c, op) == calls[c].pc = op /\ last.op = "none"

(* One browser, from mounting the component, against the store in which    *)
(* users 1 and 2 are a couple; server and browser are in UTC               *)
InitClient ==
    /\ tz = 0
    /\ now = ClockStart
    /\ users = SeedUsers
    /\ categories = SeedCategories
    /\ couples = {NewCouple(1, 1, 2)}
    /\ groceryLists = {}
    /\ groceryItems = {}
    /\ nextCoupleId = 2
    /\ nextListId = 1
    /\ nextItemId = 1
    /\ last = NoCallYet
    /\ calls = [c \in {"a"} |-> App]

NextClient ==
    \/ \E c \in Clients : initializeData(c)
    \/ \E c \in Clients : loadCategories(c)
    \/ \E c \in Clients : Requested(c, "getGroceryLists") /\ getGroceryLists(COUPLE_ID)
    \/ \E c \in Clients : ensureCurrentWeekList(c)
    \/ \E c \in Clients :
          Requested(c, "createGroceryList") /\ createGroceryList(createGroceryListInput)
    \/ \E c \in Clients : ensureCurrentWeekListCreated(c)
    \/ \E c \in Clients :
          Requested(c, "getCurrentWeekList")
          /\ getCurrentWeekList([couple_id |-> COUPLE_ID])
    \/ \E c \in Clients : loadGroceryItems(c)
    \/ \E c \in Clients : \E form \in FormInputs : setFormData(c, form)
    \/ \E c \in Clients : handleAddItem(c)
    \/ \E c \in Clients :
          Requested(c, "addGroceryItem") /\ addGroceryItemProcedure(newItemInput(c))
    \/ \E c \in Clients : handleAddItemAnswered(c)
    \/ \E c \in Clients : \E itemId \in ItemIds : handleToggleComplete(c, itemId)
    \/ \E c \in Clients :
          Requested(c, "toggleItemCompletion") /\ toggleItemCompletion(toggleInput(c))
    \/ \E c \in Clients : handleToggleCompleteAnswered(c)
    \/ \E c \in Clients : \E itemId \in ItemIds : handleRemoveItem(c, itemId)
    \/ \E c \in Clients :
          Requested(c, "removeGroceryItem") /\ removeGroceryItem(removeInput(c))
    \/ \E c \in Clients : handleRemoveItemAnswered(c)
    \/ \E c \in Clients : BackendUnavailable(c)

SpecClient == InitClient /\ [][NextClient]_vars

(* Two browsers of the couple that have both loaded the week's list with   *)
(* its one item, in live mode (one has initialized and added the item, the *)
(* other has initialized after that)                                       *)
SharedList == NewList(1, COUPLE_ID, toISODate(getCurrentWeekStart(ClockStart, 0)))
SharedItem == NewItem(1, 1, StoredItemInput, ClockStart)
LoadedApp ==
    [App EXCEPT
        !.pc = "ready",
        !.groceryItems = {[item |-> SharedItem, category |-> [id |-> 1]]},
        !.categories = SeedCategories,
        !.currentWeekList =
            FromBackend([SharedList EXCEPT !.week_start = parseISODate(@)])]

InitShared ==
    /\ tz = 0
    /\ now = ClockStart
    /\ users = SeedUsers
    /\ categories = SeedCategories
    /\ couples = {NewCouple(1, 1, 2)}
    /\ groceryLists = {SharedList}
    /\ groceryItems = {SharedItem}
    /\ nextCoupleId = 2
    /\ nextListId = 2
    /\ nextItemId = 2
    /\ last = NoCallYet
    /\ calls = [c \in {"a", "b"} |-> LoadedApp]

NextShared ==
    \/ \E c \in Clients : \E itemId \in ItemIds : handleToggleComplete(c, itemId)
    \/ \E c \in Clients :
          Requested(c, "toggleItemCompletion") /\ toggleItemCompletion(toggleInput(c))
    \/ \E c \in Clients : handleToggleCompleteAnswered(c)
    \/ \E c \in Clients : \E itemId \in ItemIds : handleRemoveItem(c, itemId)
    \/ \E c \in Clients :
          Requested(c, "removeGroceryItem") /\ removeGroceryItem(removeInput(c))
    \/ \E c \in Clients : handleRemoveItemAnswered(c)
    \/ \E c \in Clients :
          Requested(c, "getCurrentWeekList")
          /\ getCurrentWeekList([couple_id |-> COUPLE_ID])
    \/ \E c \in Clients : loadGroceryItems(c)
    \/ \E c \in Clients : BackendUnavailable(c)

SpecShared == InitShared /\ [][NextShared]_vars

(* The whole server, calls made one at a time *)
Next ==
    \/ \E input \in AddInputs : addGroceryItem(input)
    \/ \E input \in ToggleInputs : toggleItemCompletion(input)
    \/ \E input \in RemoveInputs : removeGroceryItem(input)
    \/ \E input \in CreateCoupleInputs : createCouple(input)
    \/ \E input \in CreateGroceryListInputs : createGroceryList(input)
    \/ \E input \in GetCurrentWeekListInputs : getCurrentWeekList(input)
    \/ \E coupleId \in GetGroceryListsInputs : getGroceryLists(coupleId)
    \/ Tick

Spec == Init /\ [][Next]_vars

-----------------------------------------------------------------------------
(* Properties *)

(* the local calendar day of the Monday of the week instant t falls in *)
MondayOf(t, z) ==
    LET d == (t + z * MsPerHour) \div MsPerDay IN d - (d % 7)

(* the lists of couple c whose week_start is date d *)
ListsFor(lists, c, d) == {l \in lists : l.couple_id = c /\ l.week_start = d}

(* the date-only week start addGroceryItem derives from the clock *)
WeekKey == toISODate(getCurrentWeekStart(now, tz))

(* this step is a call of addGroceryItem without a list reference that returned *)
AddNoRefStep ==
    /\ last' # last
    /\ last'.op = "addGroceryItem"
    /\ last'.ok
    /\ last'.arg.list_id = UNDEFINED

(* find-or-create for couple c: with no list for (c, week start) the step  *)
(* inserts exactly one, for (c, week start), and the item is in it; with   *)
(* one, the step inserts none and the item is in a list of (c, week start) *)
FindOrCreate(c) ==
    IF ListsFor(groceryLists, c, WeekKey) = {}
    THEN \E l \in groceryLists' :
            /\ l \notin groceryLists
            /\ groceryLists' = groceryLists \cup {l}
            /\ l.couple_id = c
            /\ l.week_start = WeekKey
            /\ last'.ret.list_id = l.id
    ELSE /\ groceryLists' = groceryLists
         /\ \E l \in ListsFor(groceryLists, c, WeekKey) : last'.ret.list_id = l.id

(* C1 as stated: an addGroceryItem without a list reference by a user of   *)
(* couple C creates the one list of (C, current week start) when there is  *)
(* none and puts the item in it, and later such calls in the same week     *)
(* reuse that list and create none; for every couple C the user is in.     *)
C1_Original ==
    [][AddNoRefStep =>
         \A c \in couples :
            (c.user1_id = last'.arg.added_by_user_id
               \/ c.user2_id = last'.arg.added_by_user_id)
            => FindOrCreate(c.id)]_vars

(* the couples the handler may resolve for user u: the rows with u as      *)
(* user1 when there are any, else the rows with u as user2                 *)
ResolvedCouples(u) ==
    IF \E c \in couples : c.user1_id = u
    THEN {c \in couples : c.user1_id = u}
    ELSE {c \in couples : c.user2_id = u}

(* C1 amended: the same find-or-create, for the couple the handler         *)
(* resolves for the user (a row where the user is user1 if there is one,   *)
(* else a row where the user is user2); that is couple C whenever the user *)
(* belongs to C only.                                                      *)
C1_FindOrCreate ==
    [][AddNoRefStep =>
         /\ \E c \in ResolvedCouples(last'.arg.added_by_user_id) : FindOrCreate(c.id)
         /\ \A c \in couples :
               (/\ c.user1_id = last'.arg.added_by_user_id
                     \/ c.user2_id = last'.arg.added_by_user_id
                /\ \A d \in couples :
                      (d.user1_id = last'.arg.added_by_user_id
                         \/ d.user2_id = last'.arg.added_by_user_id) => d = c)
               => FindOrCreate(c.id)]_vars

(* C1 witness: a second addGroceryItem without a list reference has put    *)
(* its item in the only list there is, beside the first item               *)
C1_Witness ==
    /\ last.op = "addGroceryItem"
    /\ last.ok
    /\ last.arg.list_id = UNDEFINED
    /\ Cardinality(groceryLists) = 1
    /\ nextListId = 2
    /\ Cardinality({i \in groceryItems : i.list_id = last.ret.list_id}) = 2

(* C2: at most one grocery list exists for each (couple_id, week_start) *)
C2_OneListPerCoupleWeek ==
    \A l1, l2 \in groceryLists :
        (l1.couple_id = l2.couple_id /\ l1.week_start = l2.week_start) => l1 = l2

(* two calls of addGroceryItem without a list reference, for the same      *)
(* couple and week, that both saw no list of the week and have returned    *)
BothSawNoList(p, q) ==
    /\ p # q
    /\ calls[p].pc = "done" /\ calls[p].op = "addGroceryItem" /\ calls[p].ok
    /\ calls[q].pc = "done" /\ calls[q].op = "addGroceryItem" /\ calls[q].ok
    /\ calls[p].mem.sawNoList /\ calls[q].mem.sawNoList
    /\ calls[p].mem.coupleId = calls[q].mem.coupleId
    /\ calls[p].mem.week_start = calls[q].mem.week_start

(* C3: when two addGroceryItem calls without a list reference for the same *)
(* couple interleave so that both observe no list of the week, both insert *)
(* one: two lists exist for the same (couple, week start) and the two      *)
(* returned items reference different lists.                               *)
C3_RaceSplitsItems ==
    \A p, q \in Procs :
        BothSawNoList(p, q) =>
            \E l1, l2 \in groceryLists :
                /\ l1 # l2
                /\ l1.couple_id = calls[p].mem.coupleId
                /\ l2.couple_id = calls[p].mem.coupleId
                /\ l1.week_start = calls[p].mem.week_start
                /\ l2.week_start = calls[p].mem.week_start
                /\ calls[p].ret.list_id = l1.id
                /\ calls[q].ret.list_id = l2.id

(* C3 witness: such a pair of calls has returned and both items are stored *)
C3_Witness ==
    \E p, q \in Procs :
        /\ BothSawNoList(p, q)
        /\ calls[p].ret \in groceryItems
        /\ calls[q].ret \in groceryItems
        /\ calls[p].ret.list_id # calls[q].ret.list_id
        /\ Cardinality(groceryLists) = 2

(* C4: every stored item has completed_by_user_id and completed_at both    *)
(* non-null when is_completed is true and both null when it is false       *)
C4_CompletionFieldsAgree ==
    \A i \in groceryItems :
        IF i.is_completed
        THEN i.completed_by_user_id # NULL /\ i.completed_at # NULL
        ELSE i.completed_by_user_id = NULL /\ i.completed_at = NULL

(* C4 witness: two toggles of one item interleaved, both having read the   *)
(* item incomplete, have both updated it, and it is stored complete        *)
C4_Witness ==
    \E p, q \in Procs :
        /\ p # q
        /\ calls[p].pc = "done" /\ calls[p].op = "toggleItemCompletion" /\ calls[p].ok
        /\ calls[q].pc = "done" /\ calls[q].op = "toggleItemCompletion" /\ calls[q].ok
        /\ calls[p].input.item_id = calls[q].input.item_id
        /\ calls[p].input.user_id # calls[q].input.user_id
        /\ ~calls[p].mem.isCurrentlyCompleted
        /\ ~calls[q].mem.isCurrentlyCompleted
        /\ \E i \in groceryItems : i.id = calls[p].input.item_id /\ i.is_completed

(* the last call was toggleItemCompletion on an item that existed *)
ToggledExisting == last.op = "toggleItemCompletion" /\ last.before # {}

(* row cur after one toggle by the acting user at the call's instant *)
Toggled(cur) ==
    IF cur.is_completed
    THEN [cur EXCEPT !.is_completed = FALSE,
                     !.completed_by_user_id = NULL,
                     !.completed_at = NULL]
    ELSE [cur EXCEPT !.is_completed = TRUE,
                     !.completed_by_user_id = last.arg.user_id,
                     !.completed_at = last.at]

(* the call returned the toggled row and it is the stored row of that id *)
ToggleApplied(cur) ==
    /\ last.ok
    /\ last.ret = Toggled(cur)
    /\ {i \in groceryItems : i.id = cur.id} = {Toggled(cur)}

(* C5 as stated: toggleItemCompletion on an existing item flips            *)
(* is_completed, for every acting user_id: an incomplete item is stored    *)
(* and returned complete by the acting user at the current time, a         *)
(* complete one incomplete with both completion fields null.               *)
C5_Original ==
    ToggledExisting => \A cur \in last.before : ToggleApplied(cur)

(* C5 amended: the same when the item was complete (whoever the acting     *)
(* user is) or the acting user_id is an existing user; completing an       *)
(* incomplete item with a user_id that is no user fails and leaves the     *)
(* item as it was.                                                         *)
C5_ToggleFlips ==
    ToggledExisting =>
        \A cur \in last.before :
            IF cur.is_completed \/ last.arg.user_id \in users
            THEN ToggleApplied(cur)
            ELSE ~last.ok /\ cur \in groceryItems

(* C5 witness: an item completed by one user has been made incomplete by   *)
(* a toggle of another user_id                                             *)
C5_Witness ==
    /\ ToggledExisting
    /\ last.ok
    /\ ~last.ret.is_completed
    /\ last.ret \in groceryItems
    /\ \E cur \in last.before :
          cur.is_completed /\ cur.completed_by_user_id # last.arg.user_id

(* the last two calls were toggleItemCompletion on one item and returned *)
TwoToggles ==
    last.op = "toggleItemCompletion" /\ last.ok /\ last.first # {}

(* C6 as stated: two consecutive toggleItemCompletion calls on an item     *)
(* leave is_completed, completed_by_user_id and completed_at as they were  *)
(* before the first, whatever the item's state and the acting users.       *)
C6_Original ==
    TwoToggles =>
        \A b \in last.first :
            /\ last.ret.is_completed = b.is_completed
            /\ last.ret.completed_by_user_id = b.completed_by_user_id
            /\ last.ret.completed_at = b.completed_at

(* C6 amended: two consecutive successful toggles leave is_completed as it *)
(* was before the first; an item that was incomplete has both completion   *)
(* fields null again, an item that was complete is now completed by the    *)
(* second call's user at the second call's time.                           *)
C6_TwoTogglesRestoreFlag ==
    TwoToggles =>
        \A b \in last.first :
            /\ last.ret.is_completed = b.is_completed
            /\ last.ret \in groceryItems
            /\ IF b.is_completed
               THEN /\ last.ret.completed_by_user_id = last.arg.user_id
                    /\ last.ret.completed_at = last.at
               ELSE /\ last.ret.completed_by_user_id = NULL
                    /\ last.ret.completed_at = NULL

(* C6 witness: an item completed by one user has been toggled twice, the   *)
(* second time by another user at a later time                             *)
C6_Witness ==
    /\ TwoToggles
    /\ \E b \in last.first :
          /\ b.is_completed
          /\ b.completed_by_user_id # last.arg.user_id
          /\ b.completed_at < last.at

(* C7: toggleItemCompletion with an item_id that is not in the store fails *)
(* with a not-found error naming that id and changes no row of the store   *)
C7_MissingItemNotFound ==
    [][(/\ last' # last
        /\ last'.op = "toggleItemCompletion"
        /\ \A i \in groceryItems : i.id # last'.arg.item_id)
       => (/\ ~last'.ok
           /\ last'.err = [what |-> "Grocery item", id |-> last'.arg.item_id,
                           how |-> "not found"]
           /\ UNCHANGED store)]_vars

(* C7 witness: a toggle of an id that is not stored, next to stored items, *)
(* by a user_id that is no user, has failed with the not-found error       *)
C7_Witness ==
    /\ last.op = "toggleItemCompletion"
    /\ ~last.ok
    /\ last.err.how = "not found"
    /\ last.err.id = last.arg.item_id
    /\ last.arg.user_id \notin users
    /\ groceryItems # {}

(* C8: removeGroceryItem raises no error and returns success = true        *)
(* exactly when an item with that id was stored at the call, which the     *)
(* call deletes; so a second removal of the same id right after returns    *)
(* false.                                                                  *)
C8_RemoveReportsExistence ==
    [][(last' # last /\ last'.op = "removeGroceryItem")
       => (/\ last'.ok
           /\ last'.ret.success = (\E i \in groceryItems : i.id = last'.arg.item_id)
           /\ groceryItems' = {i \in groceryItems : i.id # last'.arg.item_id}
           /\ (last.op = "removeGroceryItem" /\ last.arg.item_id = last'.arg.item_id)
                 => ~last'.ret.success)]_vars

(* C8 witness: the same id has been removed twice in a row, the first call *)
(* deleting the item and the second returning false                        *)
C8_Witness ==
    /\ last.op = "removeGroceryItem"
    /\ last.ok
    /\ ~last.ret.success
    /\ last.first # {}
    /\ \A i \in groceryItems : i.id # last.arg.item_id

(* C9: getCurrentWeekList(C) returns no item whose list is owned by a      *)
(* couple other than C and no item whose list has a week_start before      *)
(* this week's Monday or after this week's Sunday                          *)
C9_OnlyOwnCurrentWeek ==
    last.op = "getCurrentWeekList" =>
        \A r \in DOMAIN last.ret :
            \A l \in groceryLists :
                l.id = r.item.list_id =>
                    /\ l.couple_id = last.arg.couple_id
                    /\ l.week_start >= MondayOf(last.at, tz)
                    /\ l.week_start <= MondayOf(last.at, tz) + 6

(* weekStart is the Monday 00:00:00 (local time) of the week of instant t, *)
(* as many days back as the weekday of t says, and dateStr its date        *)
IsWeekStartOf(weekStart, dateStr, t) ==
    LET local == weekStart + tz * MsPerHour
        today == (t + tz * MsPerHour) \div MsPerDay
    IN  /\ local % MsPerDay = 0
        /\ (local \div MsPerDay) % 7 = 0
        /\ today - (local \div MsPerDay) = today % 7
        /\ weekStart <= t
        /\ t <= weekStart + 6 * MsPerDay + (MsPerDay - 1)
        /\ dateStr = local \div MsPerDay

(* C10: for now on each weekday the computed week start is a Monday at     *)
(* 00:00:00, 6 days back on a Sunday and weekday index minus 1 days back   *)
(* otherwise, with weekStart <= now <= weekStart + 6 days 23:59:59.999,    *)
(* and the date-only value derived from it is that Monday's calendar date  *)
C10_WeekStartIsMonday ==
    /\ last.op = "getCurrentWeekStart" =>
          IsWeekStartOf(last.ret.weekStart, last.ret.week_start, last.arg.now)
    /\ last.op = "getCurrentWeekList.window" =>
          IsWeekStartOf(last.ret.currentWeekStart, last.ret.weekStartStr, last.arg.now)

(* this step is a call of addGroceryItem *)
AddStep == last' # last /\ last'.op = "addGroceryItem"

(* the step inserted no list and no item *)
NothingInserted ==
    /\ groceryLists' = groceryLists
    /\ groceryItems' = groceryItems
    /\ nextListId' = nextListId
    /\ nextItemId' = nextItemId

(* C11: addGroceryItem with an added_by_user_id that is no user fails with *)
(* the error 'User with id N does not exist' naming that id, whatever the  *)
(* category and list inputs, and inserts neither a list nor an item        *)
C11_MissingUserNotFound ==
    [][(AddStep /\ last'.arg.added_by_user_id \notin users)
       => (/\ ~last'.ok
           /\ last'.err = [what |-> "User", id |-> last'.arg.added_by_user_id,
                           how |-> "does not exist"]
           /\ NothingInserted)]_vars

(* C11 witness: with items stored, a call naming a user, a category and a  *)
(* list that all do not exist has failed with the error about the user     *)
C11_Witness ==
    /\ last.op = "addGroceryItem"
    /\ ~last.ok
    /\ last.err.what = "User"
    /\ last.err.how = "does not exist"
    /\ last.arg.added_by_user_id \notin users
    /\ last.arg.category_id \notin categories
    /\ last.arg.list_id = 2
    /\ \A l \in groceryLists : l.id # 2
    /\ groceryItems # {}

(* C12: addGroceryItem by an existing user fails with a not-found error    *)
(* and inserts neither a list nor an item when the category_id does not    *)
(* exist, and whenever a list reference is supplied (any value, 0          *)
(* included) that identifies no existing list                              *)
C12_MissingCategoryOrListNotFound ==
    [][(/\ AddStep
        /\ last'.arg.added_by_user_id \in users
        /\ \/ last'.arg.category_id \notin categories
           \/ /\ last'.arg.list_id # UNDEFINED
              /\ \A l \in groceryLists : l.id # last'.arg.list_id)
       => (/\ ~last'.ok
           /\ last'.err.how = "does not exist"
           /\ last'.err.what \in {"Category", "Grocery list"}
           /\ NothingInserted)]_vars

(* the call is without a list reference, by an existing user who is        *)
(* neither user1 nor user2 of any couple                                   *)
AddByUserOfNoCouple ==
    /\ AddStep
    /\ last'.arg.list_id = UNDEFINED
    /\ last'.arg.added_by_user_id \in users
    /\ \A c \in couples :
          /\ c.user1_id # last'.arg.added_by_user_id
          /\ c.user2_id # last'.arg.added_by_user_id

(* the call failed with 'User with id N is not part of any couple' and     *)
(* inserted nothing                                                        *)
NotInCoupleError ==
    /\ ~last'.ok
    /\ last'.err = [what |-> "User", id |-> last'.arg.added_by_user_id,
                    how |-> "is not part of any couple"]
    /\ NothingInserted

(* C13 as stated: addGroceryItem without a list reference by an existing   *)
(* user of no couple fails with the invalid-state error 'is not part of    *)
(* any couple' and inserts neither a list nor an item                      *)
C13_Original == [][AddByUserOfNoCouple => NotInCoupleError]_vars

(* C13 amended: the same when the category_id exists; when it does not,    *)
(* the call fails with the category's not-found error and inserts nothing  *)
C13_NotInCouple ==
    [][AddByUserOfNoCouple =>
         IF last'.arg.category_id \in categories
         THEN NotInCoupleError
         ELSE /\ ~last'.ok
              /\ last'.err = [what |-> "Category", id |-> last'.arg.category_id,
                              how |-> "does not exist"]
              /\ NothingInserted]_vars

(* C13 witness: while another user's couple has a list with an item, a     *)
(* call of an existing user of no couple has failed with the error         *)
C13_Witness ==
    /\ last.op = "addGroceryItem"
    /\ ~last.ok
    /\ last.err.how = "is not part of any couple"
    /\ last.arg.list_id = UNDEFINED
    /\ last.arg.added_by_user_id \in users
    /\ couples # {}
    /\ groceryItems # {}
    /\ \A c \in couples :
          /\ c.user1_id # last.arg.added_by_user_id
          /\ c.user2_id # last.arg.added_by_user_id

(* C14: every successful addGroceryItem inserts exactly one item, not      *)
(* completed and with both completion fields null, with the input's        *)
(* category_id, name and added_by_user_id, and returns that stored row     *)
(* with a fresh id and the list_id of the list supplied, found or created  *)
C14_AddInsertsOneItem ==
    [][(AddStep /\ last'.ok)
       => (/\ last'.ret \notin groceryItems
           /\ groceryItems' = groceryItems \cup {last'.ret}
           /\ \A i \in groceryItems : i.id # last'.ret.id
           /\ last'.ret.id >= nextItemId
           /\ nextItemId' > last'.ret.id
           /\ ~last'.ret.is_completed
           /\ last'.ret.completed_by_user_id = NULL
           /\ last'.ret.completed_at = NULL
           /\ last'.ret.category_id = last'.arg.category_id
           /\ last'.ret.name = last'.arg.name
           /\ last'.ret.added_by_user_id = last'.arg.added_by_user_id
           /\ IF \E l \in groceryLists : l.id = last'.arg.list_id
              THEN /\ last'.ret.list_id = last'.arg.list_id
                   /\ groceryLists' = groceryLists
              ELSE \/ /\ groceryLists' = groceryLists
                      /\ \E l \in groceryLists : l.id = last'.ret.list_id
                   \/ \E l \in groceryLists' :
                         /\ l \notin groceryLists
                         /\ groceryLists' = groceryLists \cup {l}
                         /\ l.id = last'.ret.list_id)]_vars

(* C14 witness: a call has returned the item it stored in a list found for *)
(* the week, beside the item whose call created that list                  *)
C14_Witness ==
    /\ last.op = "addGroceryItem"
    /\ last.ok
    /\ last.arg.list_id = UNDEFINED
    /\ last.ret \in groceryItems
    /\ last.ret.id = 2
    /\ \E i \in groceryItems : i.id = 1 /\ i.list_id = last.ret.list_id
    /\ Cardinality(groceryLists) = 1

(* the user is user1 or user2 of couple c *)
MemberOf(u, c) == c.user1_id = u \/ c.user2_id = u

(* C16: when the list reference supplied identifies an existing list,      *)
(* addGroceryItem by any existing user with an existing category succeeds, *)
(* inserts the item into exactly that list and creates no list, also when  *)
(* the user belongs to another couple than the list's or to none           *)
C16_SuppliedListUsedUnchecked ==
    [][(/\ AddStep
        /\ last'.arg.added_by_user_id \in users
        /\ last'.arg.category_id \in categories
        /\ \E l \in groceryLists : l.id = last'.arg.list_id)
       => (/\ last'.ok
           /\ last'.ret.list_id = last'.arg.list_id
           /\ last'.ret \notin groceryItems
           /\ groceryItems' = groceryItems \cup {last'.ret}
           /\ groceryLists' = groceryLists
           /\ nextListId' = nextListId)]_vars

(* C16 witness: a user of another couple has added an item to the list of  *)
(* a couple the user is not a member of                                    *)
C16_Witness ==
    /\ last.op = "addGroceryItem"
    /\ last.ok
    /\ last.ret \in groceryItems
    /\ \E l \in groceryLists :
          /\ l.id = last.arg.list_id
          /\ l.id = last.ret.list_id
          /\ \A c \in couples :
                c.id = l.couple_id => ~MemberOf(last.arg.added_by_user_id, c)
          /\ \E c \in couples :
                c.id # l.couple_id /\ MemberOf(last.arg.added_by_user_id, c)

(* C15: the addGroceryItem procedure accepts a request in which list_id is *)
(* omitted: the request is not rejected by input validation, it reaches    *)
(* the handler, which finds or creates the current-week list for the item  *)
C15_OmittedListIdAccepted ==
    (/\ last.op \in {"appRouter.addGroceryItem", "addGroceryItem"}
     /\ last.arg.list_id = UNDEFINED)
    => (/\ last.op = "addGroceryItem"
        /\ last.ok
        /\ \E l \in groceryLists : l.id = last.ret.list_id)

(* C17: createCouple inserts a couple only when both ids are existing      *)
(* users; otherwise it fails with 'User with id N does not exist' and      *)
(* inserts nothing, N being user1_id when user1 is missing (also when both *)
(* are) and user2_id when only user2 is                                    *)
C17_CoupleNeedsBothUsers ==
    [][(last' # last /\ last'.op = "createCouple")
       => IF last'.arg.user1_id \in users /\ last'.arg.user2_id \in users
          THEN /\ last'.ok
               /\ last'.ret \notin couples
               /\ couples' = couples \cup {last'.ret}
               /\ last'.ret.user1_id = last'.arg.user1_id
               /\ last'.ret.user2_id = last'.arg.user2_id
               /\ \A c \in couples : c.id # last'.ret.id
          ELSE /\ ~last'.ok
               /\ last'.err = [what |-> "User",
                               id |-> IF last'.arg.user1_id \notin users
                                      THEN last'.arg.user1_id
                                      ELSE last'.arg.user2_id,
                               how |-> "does not exist"]
               /\ couples' = couples
               /\ nextCoupleId' = nextCoupleId]_vars

(* C17 witness: with a couple stored, a call naming two different users    *)
(* that both do not exist has failed with the error naming user1_id        *)
C17_Witness ==
    /\ last.op = "createCouple"
    /\ ~last.ok
    /\ last.arg.user1_id \notin users
    /\ last.arg.user2_id \notin users
    /\ last.arg.user1_id # last.arg.user2_id
    /\ last.err.id = last.arg.user1_id
    /\ couples # {}

(* C18: createGroceryList fails with 'Couple with id N does not exist' and *)
(* inserts nothing when the couple does not exist; otherwise it inserts    *)
(* exactly one list with that couple_id and the date of the week_start     *)
(* supplied, and returns it with a fresh id                                *)
C18_CreateListNeedsCouple ==
    [][(last' # last /\ last'.op = "createGroceryList")
       => IF \A c \in couples : c.id # last'.arg.couple_id
          THEN /\ ~last'.ok
               /\ last'.err = [what |-> "Couple", id |-> last'.arg.couple_id,
                               how |-> "does not exist"]
               /\ groceryLists' = groceryLists
               /\ nextListId' = nextListId
          ELSE /\ last'.ok
               /\ \E l \in groceryLists' :
                     /\ l \notin groceryLists
                     /\ groceryLists' = groceryLists \cup {l}
                     /\ l.couple_id = last'.arg.couple_id
                     /\ l.week_start = last'.arg.week_start \div MsPerDay
                     /\ \A k \in groceryLists : k.id # l.id
                     /\ l.id >= nextListId
                     /\ last'.ret.id = l.id
                     /\ last'.ret.couple_id = l.couple_id
                     /\ last'.ret.week_start = l.week_start * MsPerDay]_vars

(* C18 witness: a second list of a couple has been created from a          *)
(* week_start with a time of day, and returned with the date alone         *)
C18_Witness ==
    /\ last.op = "createGroceryList"
    /\ last.ok
    /\ last.ret.week_start # last.arg.week_start
    /\ \E l, k \in groceryLists :
          /\ l.id = last.ret.id
          /\ k.id # l.id
          /\ k.couple_id = l.couple_id

(* C19: getGroceryLists(coupleId) returns exactly the lists whose          *)
(* couple_id is coupleId, each once, ordered by week_start descending,     *)
(* and changes nothing in the store                                        *)
C19_ListsOfCoupleDescending ==
    [][(last' # last /\ last'.op = "getGroceryLists")
       => (/\ last'.ok
           /\ {[last'.ret[i] EXCEPT !.week_start = last'.ret[i].week_start \div MsPerDay] :
                  i \in 1..Len(last'.ret)}
                = {l \in groceryLists : l.couple_id = last'.arg.coupleId}
           /\ Len(last'.ret)
                = Cardinality({l \in groceryLists : l.couple_id = last'.arg.coupleId})
           /\ \A i \in 1..Len(last'.ret) : last'.ret[i].week_start % MsPerDay = 0
           /\ \A i, j \in 1..Len(last'.ret) :
                 i < j => last'.ret[i].week_start >= last'.ret[j].week_start
           /\ UNCHANGED store)]_vars

(* C19 witness: two lists of the couple, the one created first with the   *)
(* earlier week start, have been returned later week first, while another  *)
(* couple exists                                                           *)
C19_Witness ==
    /\ last.op = "getGroceryLists"
    /\ Len(last.ret) = 2
    /\ last.ret[1].week_start > last.ret[2].week_start
    /\ last.ret[1].id > last.ret[2].id
    /\ \E c \in couples : c.id # last.arg.coupleId

(* C20: a successful toggleItemCompletion changes only is_completed,       *)
(* completed_by_user_id and completed_at of the targeted item; its other   *)
(* columns, every other item and every list, category, couple and user     *)
(* are unchanged                                                           *)
C20_ToggleChangesOneItem ==
    [][(last' # last /\ last'.op = "toggleItemCompletion" /\ last'.ok)
       => (/\ \A i \in groceryItems :
                 i.id # last'.arg.item_id => i \in groceryItems'
           /\ \A j \in groceryItems' :
                 j.id # last'.arg.item_id => j \in groceryItems
           /\ \A i \in groceryItems :
                 i.id = last'.arg.item_id =>
                    /\ [i EXCEPT !.is_completed = last'.ret.is_completed,
                                 !.completed_by_user_id = last'.ret.completed_by_user_id,
                                 !.completed_at = last'.ret.completed_at] = last'.ret
                    /\ {j \in groceryItems' : j.id = i.id} = {last'.ret}
           /\ Cardinality(groceryItems') = Cardinality(groceryItems)
           /\ UNCHANGED <<users, categories, couples, groceryLists>>)]_vars

(* C20 witness: one of several stored items, with a quantity, has been     *)
(* toggled to complete                                                     *)
C20_Witness ==
    /\ last.op = "toggleItemCompletion"
    /\ last.ok
    /\ last.ret \in groceryItems
    /\ last.ret.is_completed
    /\ last.ret.quantity # NullText
    /\ \E i \in groceryItems : i.id # last.ret.id /\ ~i.is_completed

(* C21: removeGroceryItem deletes at most the one item with that id: every *)
(* other item is unchanged and no list, category, couple or user is        *)
(* deleted or changed, also when the item was the last of its list         *)
C21_RemoveDeletesOneItem ==
    [][(last' # last /\ last'.op = "removeGroceryItem")
       => (/\ \A i \in groceryItems :
                 i.id # last'.arg.item_id => i \in groceryItems'
           /\ groceryItems' \subseteq groceryItems
           /\ Cardinality(groceryItems \ groceryItems') <= 1
           /\ UNCHANGED <<users, categories, couples, groceryLists>>)]_vars

(* C21 witness: the only item of a list has been removed and the list is   *)
(* still stored                                                            *)
C21_Witness ==
    /\ last.op = "removeGroceryItem"
    /\ last.ret.success
    /\ \E r \in last.before :
          /\ \E l \in groceryLists : l.id = r.list_id
          /\ \A i \in groceryItems : i.list_id # r.list_id

(* the item is in a list of couple c whose week_start is one of the seven   *)
(* days, Monday to Sunday, of the week of instant t                        *)
InCurrentWeekOf(i, c, t) ==
    \E l \in groceryLists :
        /\ l.id = i.list_id
        /\ l.couple_id = c
        /\ l.week_start >= MondayOf(t, tz)
        /\ l.week_start <= MondayOf(t, tz) + 6

(* C23: getCurrentWeekList(C) returns every item of every list of C whose  *)
(* week_start lies in the current week, Monday and Sunday included, each   *)
(* exactly once, also with several lists of C in the week; each returned   *)
(* item carries the category whose id is its category_id; the store is     *)
(* left as it was                                                          *)
C23_QueryReturnsWeekItemsOnce ==
    [][(last' # last /\ last'.op = "getCurrentWeekList")
       => (/\ last'.ok
           /\ \A i \in groceryItems :
                 InCurrentWeekOf(i, last'.arg.couple_id, last'.at)
                 => \E x \in DOMAIN last'.ret :
                       /\ x.item = i
                       /\ \A y \in DOMAIN last'.ret : y.item.id = i.id => y = x
           /\ \A x \in DOMAIN last'.ret :
                 /\ last'.ret[x] = 1
                 /\ x.item \in groceryItems
                 /\ x.category.id = x.item.category_id
                 /\ x.category.id \in categories
           /\ UNCHANGED store)]_vars

(* C23 witness: the query returned two items that sit in two different     *)
(* lists of the couple, one dated the Monday and one the Sunday of the week *)
C23_Witness ==
    /\ last.op = "getCurrentWeekList"
    /\ \E x, y \in DOMAIN last.ret :
          /\ x.item.list_id # y.item.list_id
          /\ InCurrentWeekOf(x.item, last.arg.couple_id, last.at)
          /\ InCurrentWeekOf(y.item, last.arg.couple_id, last.at)
          /\ \E l, m \in groceryLists :
                /\ l.id = x.item.list_id
                /\ m.id = y.item.list_id
                /\ l.week_start = MondayOf(last.at, tz)
                /\ m.week_start = MondayOf(last.at, tz) + 6

(* C24 as stated: the week_start of every stored list is a Monday          *)
C24_EveryWeekStartIsMonday ==
    \A l \in groceryLists : l.week_start % 7 = 0

(* C25: after any sequence of createCouple, createGroceryList,              *)
(* addGroceryItem, toggleItemCompletion (any user_id) and                  *)
(* removeGroceryItem calls, every couple references two stored users,      *)
(* every list a stored couple, and every item a stored list, a stored      *)
(* category, a stored user as added_by_user_id and, when                   *)
(* completed_by_user_id is not null, a stored user there too               *)
C25_ReferencesResolve ==
    /\ \A c \in couples : c.user1_id \in users /\ c.user2_id \in users
    /\ \A l \in groceryLists : \E c \in couples : c.id = l.couple_id
    /\ \A i \in groceryItems :
          /\ \E l \in groceryLists : l.id = i.list_id
          /\ i.category_id \in categories
          /\ i.added_by_user_id \in users
          /\ i.completed_by_user_id # NULL => i.completed_by_user_id \in users

(* C25 witness: a toggle naming a user that is not stored was refused and  *)
(* the item it named is stored, in a list of a stored couple               *)
C25_Witness ==
    /\ last.op = "toggleItemCompletion"
    /\ ~last.ok
    /\ last.arg.user_id \notin users
    /\ \E i \in groceryItems :
          /\ i.id = last.arg.item_id
          /\ \E l \in groceryLists : l.id = i.list_id /\ couples # {}

(* where each concurrent call stands *)
LivePcs == [p \in Procs |-> calls[p].pc]

(* what each concurrent removeGroceryItem call was asked and answered *)
LiveRemoves ==
    [p \in Procs |->
        IF calls[p].op = "removeGroceryItem"
        THEN <<calls[p].input.item_id, calls[p].ret.success>>
        ELSE <<0, FALSE>>]

(* C26 as stated: every successful toggle flips the stored flag once, so    *)
(* that n successful toggles of an item leave is_completed as it was for   *)
(* even n and negated for odd n, however the reads and updates interleave: *)
(* a toggle whose update step succeeds leaves the stored flag the          *)
(* negation of what it was just before that step                           *)
C26_EveryToggleFlipsStoredFlag ==
    [][\A p \in Procs :
          (/\ calls[p].pc = "update"
           /\ calls'[p].pc = "done"
           /\ calls'[p].ok)
          => \A i \in groceryItems :
                i.id = calls[p].input.item_id
                => \E j \in groceryItems' :
                      j.id = i.id /\ j.is_completed = ~i.is_completed
      ]_<<groceryItems, LivePcs>>

(* C27 as stated: a toggle that does not fail returns the updated item     *)
(* row, never an absent (undefined) result                                 *)
C27_ToggleReturnsItem ==
    \A p \in Procs :
        (/\ calls[p].pc = "done"
         /\ calls[p].op = "toggleItemCompletion"
         /\ calls[p].ok)
        => calls[p].ret # NoRow

(* C30: of several concurrent removeGroceryItem calls for one stored item  *)
(* exactly one returns success = true and the others false, and the item   *)
(* is absent afterwards: a remove returns true exactly when its delete     *)
(* found the item, the item is gone after it, and no two removes of one id *)
(* both return true                                                        *)
C30_OneRemoveSucceeds ==
    [][\A p \in Procs :
          (LiveRemoves'[p] # LiveRemoves[p] \/ LivePcs'[p] # LivePcs[p])
          /\ calls'[p].op = "removeGroceryItem"
          => LET id == calls'[p].input.item_id IN
             /\ calls'[p].ret.success = (\E i \in groceryItems : i.id = id)
             /\ \A i \in groceryItems' : i.id # id
             /\ \A q \in Procs \ {p} :
                   (/\ calls'[q].pc = "done"
                    /\ calls'[q].op = "removeGroceryItem"
                    /\ calls'[q].input.item_id = id
                    /\ calls'[q].ret.success)
                   => ~calls'[p].ret.success]_<<groceryItems, LivePcs, LiveRemoves>>

(* C30 witness: two removes of the same item have returned, one true and   *)
(* one false, and the item is not stored                                   *)
C30_Witness ==
    \E p, q \in Procs :
        /\ p # q
        /\ calls[p].pc = "done" /\ calls[p].op = "removeGroceryItem"
        /\ calls[q].pc = "done" /\ calls[q].op = "removeGroceryItem"
        /\ calls[p].input.item_id = calls[q].input.item_id
        /\ calls[p].ret.success
        /\ ~calls[q].ret.success
        /\ calls[p].input.item_id < nextItemId
        /\ \A i \in groceryItems : i.id # calls[p].input.item_id

(* client c, awaiting op in live mode, takes a step with no successful     *)
(* answer to take: the remote call has failed                              *)
RemoteFailed(c, op) ==
    /\ calls[c].pc = op
    /\ ~calls[c].isOfflineMode
    /\ calls'[c] # calls[c]
    /\ ~(last.op = op /\ last.ok)

(* the failed toggle or remove leaves the local items as they are and      *)
(* starts the re-fetch of the current week's items                         *)
RefetchStarted(c) ==
    /\ calls'[c].groceryItems = calls[c].groceryItems
    /\ calls'[c].pc = "getCurrentWeekList"

(* C22 as stated: in live mode, when the remote toggleItemCompletion or    *)
(* removeGroceryItem fails the client has an error message set, its local  *)
(* items are as they were and the re-fetch of the week's items is under    *)
(* way; when the remote addGroceryItem fails the client has the error      *)
(* message set, starts no re-fetch, keeps its items and the form, and      *)
(* isSubmitting is false again                                             *)
C22_FailureSetsErrorAndRefetches ==
    [][\A c \in Clients :
          /\ RemoteFailed(c, "toggleItemCompletion")
                => calls'[c].error = UpdateFailed /\ RefetchStarted(c)
          /\ RemoteFailed(c, "removeGroceryItem")
                => calls'[c].error = RemoveFailed /\ RefetchStarted(c)
          /\ RemoteFailed(c, "addGroceryItem")
                => /\ calls'[c].error = AddFailed
                   /\ calls'[c].pc = "ready"
                   /\ calls'[c].groceryItems = calls[c].groceryItems
                   /\ calls'[c].formData = calls[c].formData
                   /\ ~calls'[c].isSubmitting]_calls

(* C28 as stated: an addGroceryItem request of a client in live mode names *)
(* a list received from the backend, of COUPLE_ID and of the current week, *)
(* never the placeholder of createOfflineCurrentWeekList                   *)
C28_AddNeverSendsPlaceholder ==
    \A c \in Clients :
        (calls[c].pc = "addGroceryItem" /\ ~calls[c].isOfflineMode)
        => /\ calls[c].currentWeekList.origin = "backend"
           /\ calls[c].currentWeekList.couple_id = COUPLE_ID
           /\ toISODate(calls[c].currentWeekList.week_start) = MondayOf(now, tz)

(* C29 as stated: when a client's toggle has succeeded remotely, the       *)
(* is_completed it shows for the item is the value that toggle stored on   *)
(* the server                                                              *)
C29_LocalFlagIsStoredFlag ==
    [][\A c \in Clients :
          (calls[c].pc = "toggleItemCompletion" /\ calls'[c].pc = "ready")
          => \A x \in calls'[c].groceryItems :
                x.item.id = calls[c].itemId
                => x.item.is_completed = last.ret.is_completed]_calls

====
